---- MODULE Spec2Model ----
(***************************************************************************)
(* The turn / activity engine of dungeonsofglee (src/src/logic.ts) as a    *)
(* state machine.  The game state of logic.ts (GameState) is the set of    *)
(* variables below; every Rune action handler, the playerLeft event and    *)
(* the update tick are one action each.  Handlers are written as           *)
(* operators over a record g holding the fields of GameState, so that a    *)
(* handler's calls (joinGame, nextTurn, kill, applyCurrentActivity,        *)
(* takeEvilTurn) compose the way they do in the source.  A function of the *)
(* source is split into stages, one operator each: a value the source      *)
(* keeps in a local variable is the parameter of the next stage.  A stage   *)
(* that reads a parameter more than once names its value first, as the     *)
(* source's local variable does: The({e : x \in {v}}) is e with x bound to *)
(* the value of v.                                                         *)
(*                                                                         *)
(* The collaborators logic.ts imports (dungeon.ts, actor.ts, player.ts,    *)
(* monsters.ts, items.ts) are modelled from the specification's section 6: *)
(* a dungeon is a corridor of cells (x, 0), x in Cells.                    *)
(*                                                                         *)
(* Spec is the game; FairSpec is the game with update called on every      *)
(* period of the clock; CombatSpec calls rollCombat on its own over        *)
(* bounded arguments; ReplicaSpec runs update on two replicas side by      *)
(* side; StepSpec applies one step of the executor and PlanSpec one call   *)
(* of the planner, each on its own.                                        *)
(***************************************************************************)
EXTENDS Integers, Sequences, FiniteSets, TLC

VARIABLES
    gold,            \* GameState.gold
    items,           \* GameState.items
    nextId,          \* GameState.nextId
    playerOrder,     \* GameState.playerOrder
    deadHeroes,      \* GameState.deadHeroes
    playerInfo,      \* GameState.playerInfo
    whoseTurn,       \* GameState.whoseTurn
    dungeons,        \* GameState.dungeons
    possibleMoves,   \* GameState.possibleMoves
    currentActivity, \* GameState.currentActivity
    sinceUpdate,     \* Rune.gameTime() - GameState.lastUpdate, in update periods
    events,          \* GameState.events
    evilTurnMax,     \* GameState.evilTurnMax
    whoseSave,       \* GameState.whoseSave
    saveLevel,       \* GameState.saveLevel
    persisted,       \* GameState.persisted
    gameOvers,       \* number of Rune.gameOver() calls so far
    commands,        \* commands applied so far
    call             \* a function called on its own: its arguments and result

vars == <<gold, items, nextId, playerOrder, deadHeroes, playerInfo, whoseTurn,
          dungeons, possibleMoves, currentActivity, sinceUpdate, events,
          evilTurnMax, whoseSave, saveLevel, persisted, gameOvers, commands,
          call>>

----------------------------------------------------------------------------
(* Bounds of the model *)

\* ids handed out by game.nextId stay at or below this
MaxId == 5
\* events appended by commands between two update ticks
MaxEvents == 1
\* commands the participants send in one run
MaxCommands == 4
\* the stats of the actors rollCombat is tried on, and how far apart they stand
MaxAttack == 2
MaxModAttack == 1
MaxDefense == 1
MaxModDefense == 1
MaxSpan == 2
\* updates the two replicas run side by side
MaxTicks == 3

\* the participants that may send commands; setup is handed them in this order
AllPlayerIds == <<"p1", "p2">>

Players == {AllPlayerIds[i] : i \in 1..Len(AllPlayerIds)}

----------------------------------------------------------------------------
(* Program constants *)

\* STEP_TIME = 1000 / 3 ms; update runs 15 times a second, so a period is
\* 1000 / 15 ms and gameTime - lastUpdate > STEP_TIME iff more than
\* UPDATES_PER_SECOND / 3 periods have passed
UPDATES_PER_SECOND == 15
STEP_PERIODS == UPDATES_PER_SECOND \div 3
EVIL_TURN_MAX == 100
MAX_SAVES == 3
MAGIC_COST == 3
HEAL_COST == 2
HEAL_AMOUNT == 2
MAGIC_MULTIPLIER == 2

----------------------------------------------------------------------------
(* Values standing for JavaScript's undefined *)

Undefined == "undefined"
NoActivity == [dungeonId |-> -1, actorId |-> -1, tx |-> -1, ty |-> -1]
NoInfo == [dungeonId |-> -1, type |-> "none", actorId |-> -1]
NoMove == [x |-> -1, y |-> -1, sx |-> -1, sy |-> -1, type |-> "none", depth |-> -1]
NoActor == [id |-> -1]
NoDungeon == [id |-> -1]

----------------------------------------------------------------------------
(* Sequence helpers: Array.prototype.indexOf / find / splice *)

\* the one element of a singleton set: The({e : x \in {v}}) is e with x
\* naming the value of v
The(S) == CHOOSE x \in S : TRUE

\* 1-based position of the first element satisfying Test, 0 when there is none
RECURSIVE FirstIndex(_, _, _)
FirstIndex(seq, Test(_), i) ==
    IF i > Len(seq) THEN 0
    ELSE IF Test(seq[i]) THEN i
    ELSE FirstIndex(seq, Test, i + 1)

ElemOr(seq, i, none) == IF i = 0 THEN none ELSE seq[i]

\* seq.find(Test), `none` standing for undefined
FirstOr(seq, Test(_), none) == ElemOr(seq, FirstIndex(seq, Test, 1), none)

IndexOf(seq, e) ==
    LET Is(x) == x = e IN FirstIndex(seq, Is, 1)

IndexOfId(seq, id0) ==
    The({(
        LET Is(x) == x.id = id IN FirstIndex(seq, Is, 1)
    ) : id \in {id0}})

RemoveAt(seq0, i) ==
    The({(
        [j \in 1..(Len(seq) - 1) |-> IF j < i THEN seq[j] ELSE seq[j + 1]]
    ) : seq \in {seq0}})

\* seq.splice(jsIndex, 1) for jsIndex >= -1: a negative index counts from
\* the end, so splice(-1, 1) removes the last element
Splice1(seq0, jsIndex0) ==
    The({(
        IF Len(seq) = 0 \/ jsIndex >= Len(seq) THEN seq
        ELSE RemoveAt(seq, IF jsIndex < 0 THEN Len(seq) ELSE jsIndex + 1)
    ) : seq \in {seq0}, jsIndex \in {jsIndex0}})

\* seq.splice(seq.length - 1, 0, e)
InsertBeforeLast(seq0, e0) ==
    The({(
        IF Len(seq) = 0 THEN <<e>>
        ELSE SubSeq(seq, 1, Len(seq) - 1) \o <<e>> \o <<seq[Len(seq)]>>
    ) : seq \in {seq0}, e \in {e0}})

Range(seq) == {seq[i] : i \in 1..Len(seq)}

Abs(n) == IF n < 0 THEN -n ELSE n

Min(a, b) == IF a < b THEN a ELSE b

Max(a, b) == IF a > b THEN a ELSE b

MinOr(S, none) == IF S = {} THEN none ELSE CHOOSE m \in S : \A n \in S : m <= n

----------------------------------------------------------------------------
(* The dungeon: a corridor of cells (x, 0).  Cells 0 and 1 are the free    *)
(* interior cells of the start room, the monster of a new dungeon stands   *)
(* on MonsterCell and the stairs-down centre cell is the last cell.        *)

Cells == 0..3
StartCells == {0, 1}
MonsterCell == 2
StairsCell == 3
FarAway == 10000

\* PLAYER_CLASS_DEFS: the base stats of a class
PlayerClasses == {"witch"}

ClassDef(type) ==
    [health |-> 1, attack |-> 1, defense |-> 1, moves |-> 2, magic |-> 3]

MonsterDef == [health |-> 1, attack |-> 2, defense |-> 1, moves |-> 2, magic |-> 0]

\* goldOnKill of the monster: gold in [min, max)
GoldMin == 1
GoldMax == 3

\* createActor: the actor takes the next id
createActor(playerId0, id0, type0, def0, dungeonId0, x0, y0) ==
    The({(
        [id |-> id, playerId |-> playerId, good |-> (playerId # ""), type |-> type,
         dungeonId |-> dungeonId, x |-> x, y |-> y,
         health |-> def.health, maxHealth |-> def.health,
         magic |-> def.magic, maxMagic |-> def.magic,
         moves |-> def.moves, maxMoves |-> def.moves, actions |-> 1,
         attack |-> def.attack, defense |-> def.defense,
         modAttack |-> 0, modDefense |-> 0]
    ) : playerId \in {playerId0}, id \in {id0}, type \in {type0}, def \in {def0}, dungeonId \in {dungeonId0}, x \in {x0}, y \in {y0}})

\* generateDungeon(game, level): the dungeon takes the next id, its monster
\* the one after
generateDungeon(g0, level0) ==
    The({(
        [id |-> g.nextId, level |-> level,
         actors |-> <<createActor("", g.nextId + 1, "monster", MonsterDef,
                                  g.nextId, MonsterCell, 0)>>]
    ) : g \in {g0}, level \in {level0}})

\* ids a call of generateDungeon takes
DungeonIds == 2

\* game.dungeons.push(generateDungeon(game, level))
pushDungeon(g0, level) ==
    The({(
        [g EXCEPT !.dungeons = Append(@, generateDungeon(g, level)),
                  !.nextId = @ + DungeonIds]
    ) : g \in {g0}})

getDungeonById(g, id0) ==
    The({(
        LET Is(d) == d.id = id IN FirstOr(g.dungeons, Is, NoDungeon)
    ) : id \in {id0}})

ActorsOf(d) == IF d.id = -1 THEN <<>> ELSE d.actors

findActor(actors, id0) ==
    The({(
        LET Is(a) == a.id = id IN FirstOr(actors, Is, NoActor)
    ) : id \in {id0}})

getActorById(g, dungeonId, id) ==
    findActor(ActorsOf(getDungeonById(g, dungeonId)), id)

getActorAt(dungeon, x0, y0) ==
    The({(
        LET Is(a) == a.x = x /\ a.y = y IN FirstOr(ActorsOf(dungeon), Is, NoActor)
    ) : x \in {x0}, y \in {y0}})

\* every actor of every dungeon, in dungeon order
RECURSIVE AllActorsFrom(_, _)
AllActorsFrom(ds0, i0) ==
    The({(
        IF i > Len(ds) THEN <<>> ELSE ds[i].actors \o AllActorsFrom(ds, i + 1)
    ) : ds \in {ds0}, i \in {i0}})

AllActors(g) == AllActorsFrom(g.dungeons, 1)

IsGood(a) == a.good

IsEvil(a) == ~a.good

\* findActiveHero(game): is a hero left in some dungeon
findActiveHero(g0) ==
    The({(
        \E i \in 1..Len(g.dungeons) :
            \E j \in 1..Len(g.dungeons[i].actors) :
                g.dungeons[i].actors[j].good /\ g.dungeons[i].actors[j].health > 0
    ) : g \in {g0}})

\* the record g with the actor `a` written back to its place (actors are
\* objects the source mutates in place)
SetActor(g0, a0) ==
    The({(
        [g EXCEPT !.dungeons =
            [i \in 1..Len(g.dungeons) |->
                [g.dungeons[i] EXCEPT !.actors =
                    [j \in 1..Len(g.dungeons[i].actors) |->
                        IF g.dungeons[i].actors[j].id = a.id
                        THEN a ELSE g.dungeons[i].actors[j]]]]]
    ) : g \in {g0}, a \in {a0}})

SetDungeon(g0, d0) ==
    The({(
        [g EXCEPT !.dungeons =
            [i \in 1..Len(g.dungeons) |->
                IF g.dungeons[i].id = d.id THEN d ELSE g.dungeons[i]]]
    ) : g \in {g0}, d \in {d0}})

\* dungeon.actors.splice(dungeon.actors.indexOf(actor), 1)
RemoveActor(d, id) == [d EXCEPT !.actors = Splice1(@, IndexOfId(@, id) - 1)]

\* dungeon.actors.push(actor)
AddActor(d, a) == [d EXCEPT !.actors = Append(@, a)]

\* the actor with this id wherever it now is, `none` when it is gone
ActorOr(g, id0, none) ==
    The({(
        LET Is(a) == a.id = id IN FirstOr(AllActors(g), Is, none)
    ) : id \in {id0}})

InfoOf(g, pid0) ==
    The({(
        IF pid \in Players THEN g.playerInfo[pid] ELSE NoInfo
    ) : pid \in {pid0}})

Dist(ax, ay, bx, by) == Abs(ax - bx) + Abs(ay - by)

\* distanceToHero(game, dungeonId, point): Manhattan distance to the nearest
\* hero of that dungeon
distanceToHero(g, dungeonId, x0, y0) ==
    The({(
        MinOr({Dist(x, y, a.x, a.y) :
                  a \in {b \in Range(ActorsOf(getDungeonById(g, dungeonId))) : b.good}},
              FarAway)
    ) : x \in {x0}, y \in {y0}})

\* getAdjacentHero(game, dungeonId, actor): the first hero at distance 1
getAdjacentHero(g, dungeonId, a0) ==
    The({(
        LET Is(h) == h.good /\ Dist(a.x, a.y, h.x, h.y) = 1
        IN FirstOr(ActorsOf(getDungeonById(g, dungeonId)), Is, NoActor)
    ) : a \in {a0}})

standingNextToHero(g, a0) ==
    The({(
        getAdjacentHero(g, a.dungeonId, a).id # -1
    ) : a \in {a0}})

findActiveMonsters(g) == SelectSeq(AllActors(g), IsEvil)

----------------------------------------------------------------------------
(* Legal moves and path steps (dungeon.ts) *)

isTargetedMove(type) == type \in {"attack", "heal", "shoot", "magic"}

\* are the cells strictly between x1 and x2 free of actors
PathFree(dungeon, x10, x20) ==
    The({(
        \A c \in Cells :
            (Min(x1, x2) < c /\ c < Max(x1, x2)) => getActorAt(dungeon, c, 0).id = -1
    ) : x1 \in {x10}, x2 \in {x20}})

\* the kind of move calcMoves offers the actor on cell c, whose occupant is
\* t: a free cell within reach of the remaining moves is a "move"; an
\* occupied cell is a target while the actor has an action left: "magic" on
\* an enemy when MAGIC_COST magic is left, "attack" on an adjacent enemy
\* otherwise, "heal" on another hero when HEAL_COST magic is left
MoveType(actor0, c0, t0, free) ==
    The({(
        IF c = actor.x THEN "none"
        ELSE IF t.id = -1
        THEN (IF Abs(c - actor.x) <= actor.moves /\ free THEN "move" ELSE "none")
        ELSE IF actor.actions <= 0 THEN "none"
        ELSE IF t.good # actor.good
        THEN (IF actor.maxMagic > 0 /\ actor.magic >= MAGIC_COST THEN "magic"
              ELSE IF Abs(c - actor.x) = 1 THEN "attack"
              ELSE "none")
        ELSE IF actor.maxMagic > 0 /\ actor.magic >= HEAL_COST THEN "heal"
        ELSE "none"
    ) : actor \in {actor0}, c \in {c0}, t \in {t0}})

MoveAt(dungeon0, actor0, c0) ==
    The({(
        [x |-> c, y |-> 0, sx |-> actor.x, sy |-> actor.y,
         type |-> MoveType(actor, c, getActorAt(dungeon, c, 0),
                           PathFree(dungeon, actor.x, c)),
         depth |-> Abs(c - actor.x)]
    ) : dungeon \in {dungeon0}, actor \in {actor0}, c \in {c0}})

IsMove(m) == m.type # "none"

MovesOf(dungeon, actor) ==
    SelectSeq([i \in 1..Cardinality(Cells) |-> MoveAt(dungeon, actor, i - 1)], IsMove)

calcMovesIn(g, actor, d0) ==
    The({(
        [g EXCEPT !.possibleMoves = IF d.id = -1 THEN <<>> ELSE MovesOf(d, actor)]
    ) : d \in {d0}})

\* calcMoves(game, actor): replaces game.possibleMoves by the actor's moves
calcMoves(g0, actor0) ==
    The({(
        calcMovesIn(g, actor, getDungeonById(g, actor.dungeonId))
    ) : g \in {g0}, actor \in {actor0}})

\* possibleMoves.find(m => m.x === x && m.y === y)
FindMove(moves, x0, y0) ==
    The({(
        LET Is(m) == m.x = x /\ m.y = y IN FirstOr(moves, Is, NoMove)
    ) : x \in {x0}, y \in {y0}})

Toward(x, tx) == IF tx > x THEN x + 1 ELSE x - 1

NextStepOf(g, actor0, tx0, m0) ==
    The({(
        IF m.type = "none" THEN NoMove
        ELSE IF isTargetedMove(m.type) THEN m
        ELSE IF tx = actor.x THEN NoMove
        ELSE IF getActorAt(getDungeonById(g, actor.dungeonId), Toward(actor.x, tx), 0).id # -1
        THEN NoMove
        ELSE [m EXCEPT !.x = Toward(actor.x, tx), !.depth = 1]
    ) : actor \in {actor0}, tx \in {tx0}, m \in {m0}})

\* findNextStep(game, actor, tx, ty): the next step of the path to the move
\* possibleMoves holds for (tx, ty); none when there is no such move, when
\* the actor already stands there or when the next cell is taken
findNextStep(g0, actor, tx0, ty) ==
    The({(
        NextStepOf(g, actor, tx, FindMove(g.possibleMoves, tx, ty))
    ) : g \in {g0}, tx \in {tx0}})

----------------------------------------------------------------------------
(* Events, combat, death and loot *)

addGameEvent(g, actorId0, type0, value0) ==
    The({(
        [g EXCEPT !.events = Append(@, [type |-> type, actorId |-> actorId, value |-> value])]
    ) : actorId \in {actorId0}, type \in {type0}, value \in {value0}})

\* an uncaught TypeError
Throw(g) == [g EXCEPT !.err = TRUE]

\* the number of attack dice rollCombat throws
\* attack dice with the multiplier applied before the halving
AttackDiceScaled(attacker0, target0, multiplier) ==
    The({(
        IF Dist(attacker.x, attacker.y, target.x, target.y) = 1
        THEN ((attacker.attack + attacker.modAttack) * multiplier + 1) \div 2
        ELSE (attacker.attack + attacker.modAttack) * multiplier
    ) : attacker \in {attacker0}, target \in {target0}})

AttackDice(attacker0, target0, multiplier) ==
    The({(
        IF Dist(attacker.x, attacker.y, target.x, target.y) = 1
        THEN (attacker.attack + attacker.modAttack + 1) \div 2
        ELSE (attacker.attack + attacker.modAttack) * multiplier
    ) : attacker \in {attacker0}, target \in {target0}})

DefenseDice(target0) ==
    The({(
        target.defense + target.modDefense
    ) : target \in {target0}})

Count(rolls, n) == Cardinality({i \in 1..n : rolls[i]})

\* rollCombat(attacker, target, multiplier); rnd.skulls[i] says whether the
\* i-th attack die came up a skull, rnd.shields[i] whether the i-th defence
\* die came up a shield
rollCombat(attacker, target0, multiplier, rnd0) ==
    The({(
        IF target.id = -1 THEN 0
        ELSE Max(0, Count(rnd.skulls, AttackDice(attacker, target, multiplier))
                    - Count(rnd.shields, DefenseDice(target)))
    ) : target \in {target0}, rnd \in {rnd0}})

\* loot that gives the item and the gold as well
killLootBoth(g0, rnd0) ==
    The({(
        addGameEvent(
            addGameEvent(
                [g EXCEPT !.items = Append(@, [id |-> g.nextId, type |-> "potion"]),
                          !.nextId = @ + 1,
                          !.gold = @ + rnd.gold + GoldMin],
                -1, "itemLoot", 0),
            -1, "goldLoot", rnd.gold + GoldMin)
    ) : g \in {g0}, rnd \in {rnd0}})

\* the loot of kill (lines 382-392): rnd.item says whether the loot roll
\* gave an item, rnd.gold is floor(random * (max - min))
killLoot(g0, rnd0) ==
    The({(
        IF rnd.item
        THEN addGameEvent(
                 [g EXCEPT !.items = Append(@, [id |-> g.nextId, type |-> "potion"]),
                           !.nextId = @ + 1],
                 -1, "itemLoot", 0)
        ELSE addGameEvent([g EXCEPT !.gold = @ + rnd.gold + GoldMin],
                          -1, "goldLoot", rnd.gold + GoldMin)
    ) : g \in {g0}, rnd \in {rnd0}})

\* the game-over test of kill (lines 378-380)
killHero(g0) ==
    The({(
        IF ~findActiveHero(g) THEN [g EXCEPT !.gameOvers = @ + 1] ELSE g
    ) : g \in {g0}})

killAfter(g0, target0, rnd) ==
    The({(
        IF target.good
        THEN killHero([g EXCEPT !.deadHeroes = Append(@, [target EXCEPT !.health = 0])])
        ELSE killLoot(g, rnd)
    ) : g \in {g0}, target \in {target0}})

\* kill that flags the target dead and leaves it in the dungeon's list
killKeepsTarget(g0, dungeonId, target0, rnd) ==
    killAfter(addGameEvent(g0, -1, "died", 0), target0, rnd)

\* kill(game, dungeon, target)
kill(g0, dungeonId, target0, rnd) ==
    The({(
        killAfter(addGameEvent(
                      SetDungeon(g, RemoveActor(getDungeonById(g, dungeonId), target.id)),
                      -1, "died", 0),
                  target, rnd)
    ) : g \in {g0}, target \in {target0}})

----------------------------------------------------------------------------
(* Turn manager *)

\* lines 235-241: the index after i, wrapping to 0
NextIndex(order, i) == IF i >= Len(order) - 1 THEN 0 ELSE i + 1

\* playerOrder[index], undefined past the end
HolderAt(order, index) == IF index < Len(order) THEN order[index + 1] ELSE Undefined

\* a reset that gives no magic back
ResetHeroNoMagic(a0) ==
    The({(
        [a EXCEPT !.moves = a.maxMoves, !.actions = 1]
    ) : a \in {a0}})

\* lines 253-257
ResetHero(a0) ==
    The({(
        [a EXCEPT !.moves = a.maxMoves, !.actions = 1,
                  !.magic = IF a.magic < a.maxMagic THEN a.magic + 1 ELSE a.magic]
    ) : a \in {a0}})

\* lines 264-267
ResetEvil(a0) ==
    The({(
        IF a.good THEN a ELSE [a EXCEPT !.moves = a.maxMoves, !.actions = 1]
    ) : a \in {a0}})

nextTurnEvil(g0) ==
    The({(
        addGameEvent(
            [g EXCEPT !.evilTurnMax = EVIL_TURN_MAX,
                      !.dungeons =
                          [k \in 1..Len(g.dungeons) |->
                              [g.dungeons[k] EXCEPT !.actors =
                                  [j \in 1..Len(g.dungeons[k].actors) |->
                                      ResetEvil(g.dungeons[k].actors[j])]]]],
            0, "turnChange", 0)
    ) : g \in {g0}})

turnStart(g, a0) ==
    The({(
        addGameEvent(calcMoves(SetActor(g, a), a), 0, "turnChange", 0)
    ) : a \in {a0}})

\* nextTurn(game); `fuel` bounds the recursion (the call stack)
RECURSIVE nextTurnRec(_, _)

nextTurnActor(g0, newActor0, fuel0) ==
    The({(
        IF newActor.id = -1 THEN addGameEvent(g, 0, "turnChange", 0)
        ELSE IF newActor.health <= 0
        THEN (IF fuel = 0 THEN Throw(g) ELSE nextTurnRec(g, fuel - 1))
        ELSE turnStart(g, ResetHero(newActor))
    ) : g \in {g0}, newActor \in {newActor0}, fuel \in {fuel0}})

nextTurnHero(g0, info0, fuel) ==
    The({(
        IF info.actorId = -1 THEN Throw(g)
        ELSE nextTurnActor(g, getActorById(g, info.dungeonId, info.actorId), fuel)
    ) : g \in {g0}, info \in {info0}})

nextTurnTo(g0, fuel) ==
    The({(
        IF g.whoseTurn # "evil"
        THEN nextTurnHero(g, InfoOf(g, g.whoseTurn), fuel)
        ELSE nextTurnEvil(g)
    ) : g \in {g0}})

nextTurnRec(g0, fuel) ==
    The({(
        nextTurnTo([g EXCEPT !.whoseTurn =
                       HolderAt(g.playerOrder,
                                NextIndex(g.playerOrder,
                                          IndexOf(g.playerOrder, g.whoseTurn) - 1))],
                   fuel)
    ) : g \in {g0}})

nextTurn(g0) ==
    The({(
        nextTurnRec(g, Len(g.playerOrder) + 1)
    ) : g \in {g0}})

----------------------------------------------------------------------------
(* Entering a dungeon: start positions, joinGame, saveGame, startDungeon *)

\* the free cells the start-room scan finds, in scan order
RECURSIVE StartsFrom(_, _)
StartsFrom(dungeon0, c0) ==
    The({(
        IF c \notin Cells THEN <<>>
        ELSE (IF c \in StartCells /\ getActorAt(dungeon, c, 0).id = -1
              THEN <<c>> ELSE <<>>) \o StartsFrom(dungeon, c + 1)
    ) : dungeon \in {dungeon0}, c \in {c0}})

possibleStarts(dungeon) == StartsFrom(dungeon, 0)

\* possibleStarts[Math.floor(Math.random() * possibleStarts.length)]
PickStart(starts0, rnd) ==
    The({(
        starts[(rnd.start % Len(starts)) + 1]
    ) : starts \in {starts0}})

NoSave == [level |-> 0, gold |-> 0, items |-> <<>>]

\* lines 215-229: saves[0] is created when missing and overwritten
WriteSave(saves0, dungeonIndex, g0) ==
    The({(
        <<[level |-> dungeonIndex, gold |-> g.gold, items |-> g.items]>>
            \o (IF Len(saves) = 0 THEN <<>> ELSE Tail(saves))
    ) : saves \in {saves0}, g \in {g0}})

saveGame(playerId0, dungeonIndex, g0) ==
    The({(
        IF g.whoseSave # Undefined /\ g.whoseSave # playerId THEN g
        ELSE [g EXCEPT !.persisted[playerId] = WriteSave(@, dungeonIndex, g)]
    ) : playerId \in {playerId0}, g \in {g0}})

\* lines 350-354
MoveInfo(g0, actorId0, dungeonId0) ==
    The({(
        [g EXCEPT !.playerInfo =
            [p \in Players |->
                IF g.playerInfo[p].actorId = actorId
                THEN [g.playerInfo[p] EXCEPT !.dungeonId = dungeonId]
                ELSE g.playerInfo[p]]]
    ) : g \in {g0}, actorId \in {actorId0}, dungeonId \in {dungeonId0}})

PlaceActor(g0, a0) ==
    The({(
        SetDungeon(g, AddActor(getDungeonById(g, a.dungeonId), a))
    ) : g \in {g0}, a \in {a0}})

\* lines 336-357
startAt(g0, actor0, nextDungeonId0, oldDungeonId0, start) ==
    The({(
        addGameEvent(
            MoveInfo(
                PlaceActor(
                    SetDungeon(g, RemoveActor(getDungeonById(g, oldDungeonId), actor.id)),
                    [actor EXCEPT !.dungeonId = nextDungeonId, !.x = start, !.y = 0]),
                actor.id, nextDungeonId),
            actor.id, "stairs", oldDungeonId)
    ) : g \in {g0}, actor \in {actor0}, nextDungeonId \in {nextDungeonId0}, oldDungeonId \in {oldDungeonId0}})

startDungeon(g0, actor, nextDungeon0, oldDungeonId, rnd) ==
    The({(
        IF Len(possibleStarts(nextDungeon)) > 0
        THEN startAt(g, actor, nextDungeon.id, oldDungeonId,
                     PickStart(possibleStarts(nextDungeon), rnd))
        ELSE g
    ) : g \in {g0}, nextDungeon \in {nextDungeon0}})

\* lines 173-180
joinActor(g, playerId, type0, dungeon0, actor0) ==
    The({(
        SetDungeon([g EXCEPT !.nextId = @ + 1,
                             !.playerInfo[playerId] =
                                 [dungeonId |-> dungeon.id, type |-> type,
                                  actorId |-> actor.id]],
                   AddActor(dungeon, actor))
    ) : type \in {type0}, dungeon \in {dungeon0}, actor \in {actor0}})

joinPlace(g0, playerId0, type0, dungeon0, starts0, rnd) ==
    The({(
        IF Len(starts) > 0
        THEN joinActor(g, playerId, type, dungeon,
                       createActor(playerId, g.nextId, type, ClassDef(type),
                                   dungeon.id, PickStart(starts, rnd), 0))
        ELSE g
    ) : g \in {g0}, playerId \in {playerId0}, type \in {type0}, dungeon \in {dungeon0}, starts \in {starts0}})

\* lines 186-188
joinOrder(g0, playerId0) ==
    The({(
        IF playerId \in Range(g.playerOrder) THEN g
        ELSE [g EXCEPT !.playerOrder = InsertBeforeLast(@, playerId)]
    ) : g \in {g0}, playerId \in {playerId0}})

joinMover(g0, mover0) ==
    The({(
        IF mover.id # -1 THEN calcMoves(g, mover) ELSE g
    ) : g \in {g0}, mover \in {mover0}})

\* lines 193-200
joinCalc(g0, dungeonId) ==
    The({(
        joinMover(g, getActorById(g, dungeonId, InfoOf(g, g.whoseTurn).actorId))
    ) : g \in {g0}})

joinIn(g, playerId0, type, dungeon0, rnd) ==
    The({(
        joinCalc(joinOrder(joinPlace(g, playerId, type, dungeon,
                                     possibleStarts(dungeon), rnd),
                           playerId),
                 dungeon.id)
    ) : playerId \in {playerId0}, dungeon \in {dungeon0}})

\* joinGame(game, playerId, type, name)
joinGame(g0, playerId, type, rnd) ==
    The({(
        IF Len(g.dungeons) = 0 THEN Throw(g)
        ELSE joinIn(g, playerId, type, g.dungeons[Len(g.dungeons)], rnd)
    ) : g \in {g0}})

\* the loop of enterDungeonAt over game.playerOrder (lines 116-121)
RECURSIVE JoinAll(_, _, _, _)
JoinAll(g0, order0, i0, rnd0) ==
    The({(
        IF i > Len(order) THEN g
        ELSE JoinAll(IF InfoOf(g, order[i]).actorId # -1
                     THEN joinGame(g, order[i], InfoOf(g, order[i]).type, rnd)
                     ELSE g,
                     order, i + 1, rnd)
    ) : g \in {g0}, order \in {order0}, i \in {i0}, rnd \in {rnd0}})

enterDungeonAt(g0, level, rnd) ==
    The({(
        JoinAll(pushDungeon(g, level), g.playerOrder, 1, rnd)
    ) : g \in {g0}})

----------------------------------------------------------------------------
(* Activity executor: applyCurrentActivity *)

FindLevel(g, level0) ==
    The({(
        LET Is(d) == d.level = level IN FirstOr(g.dungeons, Is, NoDungeon)
    ) : level \in {level0}})

stairsMove(g0, actor, dungeon, nextDungeon0, rnd) ==
    The({(
        IF nextDungeon.id # -1
        THEN startDungeon(g, actor, nextDungeon, dungeon.id, rnd)
        ELSE g
    ) : g \in {g0}, nextDungeon \in {nextDungeon0}})

stairsSave(g0, actor0, dungeonIndex) ==
    The({(
        IF actor.playerId # "" THEN saveGame(actor.playerId, dungeonIndex, g) ELSE g
    ) : g \in {g0}, actor \in {actor0}})

stairsGen(g0, dungeonIndex0) ==
    The({(
        IF FindLevel(g, dungeonIndex + 1).id = -1
        THEN pushDungeon(g, dungeonIndex + 1)
        ELSE g
    ) : g \in {g0}, dungeonIndex \in {dungeonIndex0}})

stairsFind(g0, actor, dungeon0, rnd) ==
    The({(
        stairsMove(g, actor, dungeon, FindLevel(g, dungeon.level + 1 + 1), rnd)
    ) : g \in {g0}, dungeon \in {dungeon0}})

\* lines 545-569: a hero that ends its activity on the stairs goes down
TakeStairs(g0, dungeon0, actor0, rnd) ==
    The({(
        IF actor.good /\ actor.x = StairsCell /\ actor.y = 0
        THEN stairsFind(stairsSave(stairsGen(g, dungeon.level + 1), actor,
                                   dungeon.level + 1),
                        actor, dungeon, rnd)
        ELSE g
    ) : g \in {g0}, dungeon \in {dungeon0}, actor \in {actor0}})

completeEnd(g0, actor0) ==
    The({(
        calcMoves([g EXCEPT !.currentActivity = NoActivity], ActorOr(g, actor.id, actor))
    ) : g \in {g0}, actor \in {actor0}})

\* lines 542-573
Complete(g, dungeon, actor0, rnd) ==
    The({(
        completeEnd(TakeStairs(g, dungeon, actor, rnd), actor)
    ) : actor \in {actor0}})

\* "if we've already moved then engaging in combat uses up the rest"
ForfeitMoves(a0) ==
    The({(
        IF a.moves < a.maxMoves THEN [a EXCEPT !.moves = 0] ELSE a
    ) : a \in {a0}})

stepEnd(g0, a0) ==
    The({(
        [g |-> calcMoves(SetActor(g, a), a), actor |-> a]
    ) : g \in {g0}, a \in {a0}})

\* the actor object after its target was hurt: the same object when the
\* actor targeted itself
SameOr(a0, t0) ==
    The({(
        IF t.id = a.id THEN t ELSE a
    ) : a \in {a0}, t \in {t0}})

Dead(t0) ==
    The({(
        IF t.health <= 0 THEN [t EXCEPT !.health = 0] ELSE t
    ) : t \in {t0}})

combatHurt(g0, dungeonId, a, hurt0, rnd) ==
    The({(
        stepEnd(IF hurt.health <= 0 THEN kill(g, dungeonId, hurt, rnd) ELSE g,
                ForfeitMoves(SameOr(a, Dead(hurt))))
    ) : g \in {g0}, hurt \in {hurt0}})

combatDamage(g, dungeonId, a0, kind, target0, damage0, rnd) ==
    The({(
        combatHurt(addGameEvent(addGameEvent(
                       SetActor(g, [target EXCEPT !.health = @ - damage]),
                       a.id, kind, 0), a.id, "damage", damage),
                   dungeonId, a, [target EXCEPT !.health = @ - damage], rnd)
    ) : a \in {a0}, target \in {target0}, damage \in {damage0}})

combatHit(g0, dungeonId, a0, kind, multiplier, target0, rnd0) ==
    The({(
        IF target.id = -1 THEN stepEnd(g, ForfeitMoves(a))
        ELSE combatDamage(g, dungeonId, a, kind, SameOr(target, a),
                          rollCombat(a, target, multiplier, rnd), rnd)
    ) : g \in {g0}, a \in {a0}, target \in {target0}, rnd \in {rnd0}})

combatTarget(g, dungeon0, a0, nextStep0, kind, multiplier, rnd) ==
    The({(
        combatHit(SetActor(g, a), dungeon.id, a, kind, multiplier,
                  getActorAt(dungeon, nextStep.x, nextStep.y), rnd)
    ) : dungeon \in {dungeon0}, a \in {a0}, nextStep \in {nextStep0}})

\* lines 429-433: the doors and rooms of the dungeon are not in the corridor
OpenStep(g, actor) ==
    [g |-> addGameEvent(g, actor.id, "open", 0), actor |-> actor]

\* lines 436-447: a chest step is offered at a chest; its item goes to the
\* inventory
ChestStep(g0, actor) ==
    The({(
        [g |-> addGameEvent(
                   addGameEvent(
                       [g EXCEPT !.items = Append(@, [id |-> g.nextId, type |-> "potion"]),
                                 !.nextId = @ + 1],
                       actor.id, "chestOpen", 0),
                   actor.id, "itemLoot", 0),
         actor |-> actor]
    ) : g \in {g0}})

\* lines 449-470
ShootStep(g, dungeon, actor, nextStep, rnd) ==
    combatTarget(g, dungeon, [actor EXCEPT !.actions = @ - 1], nextStep,
                 "shoot", 1, rnd)

\* an attack step that forfeits the moves left whether or not the actor
\* has moved
AttackStepForfeitAll(g, dungeon, actor, nextStep, rnd) ==
    combatTarget(g, dungeon, [actor EXCEPT !.actions = @ - 1, !.moves = 0], nextStep,
                 "melee", 1, rnd)

\* lines 518-538
AttackStep(g, dungeon, actor, nextStep, rnd) ==
    combatTarget(g, dungeon, [actor EXCEPT !.actions = @ - 1], nextStep,
                 "melee", 1, rnd)

\* lines 472-495
MagicStep(g, dungeon, actor, nextStep, rnd) ==
    combatTarget(g, dungeon,
                 [actor EXCEPT !.actions = @ - 1, !.magic = @ - MAGIC_COST],
                 nextStep, "magic", MAGIC_MULTIPLIER, rnd)

Healed(t0) ==
    The({(
        [t EXCEPT !.health = Min(t.health + HEAL_AMOUNT, t.maxHealth)]
    ) : t \in {t0}})

healTarget(g0, a0, target0) ==
    The({(
        IF target.id = -1 THEN stepEnd(g, ForfeitMoves(a))
        ELSE stepEnd(addGameEvent(SetActor(g, Healed(target)), a.id, "heal", HEAL_AMOUNT),
                     ForfeitMoves(SameOr(a, Healed(target))))
    ) : g \in {g0}, a \in {a0}, target \in {target0}})

healCharged(g, dungeon, a0, nextStep0) ==
    The({(
        healTarget(SetActor(g, a), a,
                   SameOr(getActorAt(dungeon, nextStep.x, nextStep.y), a))
    ) : a \in {a0}, nextStep \in {nextStep0}})

\* lines 497-516
HealStep(g, dungeon, actor, nextStep) ==
    healCharged(g, dungeon,
                [actor EXCEPT !.actions = @ - 1, !.magic = @ - HEAL_COST], nextStep)

moveTo(g0, a0) ==
    The({(
        [g |-> addGameEvent(SetActor(g, a), a.id, "step", 0), actor |-> a]
    ) : g \in {g0}, a \in {a0}})

\* lines 413-427
MoveStep(g, actor, nextStep0) ==
    The({(
        moveTo(g, [actor EXCEPT !.x = nextStep.x, !.y = nextStep.y, !.moves = @ - 1])
    ) : nextStep \in {nextStep0}})

DoStep(g0, dungeon0, actor0, nextStep0, rnd0) ==
    The({(
        CASE nextStep.type = "move" -> MoveStep(g, actor, nextStep)
          [] nextStep.type = "open" -> OpenStep(g, actor)
          [] nextStep.type = "chest" -> ChestStep(g, actor)
          [] nextStep.type = "shoot" -> ShootStep(g, dungeon, actor, nextStep, rnd)
          [] nextStep.type = "magic" -> MagicStep(g, dungeon, actor, nextStep, rnd)
          [] nextStep.type = "heal" -> HealStep(g, dungeon, actor, nextStep)
          [] nextStep.type = "attack" -> AttackStep(g, dungeon, actor, nextStep, rnd)
          [] OTHER -> [g |-> g, actor |-> actor]
    ) : g \in {g0}, dungeon \in {dungeon0}, actor \in {actor0}, nextStep \in {nextStep0}, rnd \in {rnd0}})

applyDone(activity0, dungeon, nextStep0, r0, rnd) ==
    The({(
        IF nextStep.type # "none" /\ nextStep.x = activity.tx /\ nextStep.y = activity.ty
        THEN Complete(r.g, dungeon, r.actor, rnd)
        ELSE r.g
    ) : activity \in {activity0}, nextStep \in {nextStep0}, r \in {r0}})

applyStep(g0, dungeon0, actor, nextStep0, rnd0) ==
    The({(
        applyDone(g.currentActivity, dungeon, nextStep,
                  DoStep(g, dungeon, actor, nextStep, rnd), rnd)
    ) : g \in {g0}, dungeon \in {dungeon0}, nextStep \in {nextStep0}, rnd \in {rnd0}})

applyActor(g0, dungeon, actor0, rnd) ==
    The({(
        IF actor.id = -1 THEN [g |-> g, ret |-> TRUE]
        ELSE [g |-> applyStep(g, dungeon, actor,
                              findNextStep(g, actor, g.currentActivity.tx,
                                           g.currentActivity.ty), rnd),
              ret |-> TRUE]
    ) : g \in {g0}, actor \in {actor0}})

applyIn(g0, dungeon0, rnd) ==
    The({(
        IF dungeon.id = -1 THEN [g |-> g, ret |-> FALSE]
        ELSE applyActor(g, dungeon, findActor(dungeon.actors, g.currentActivity.actorId), rnd)
    ) : g \in {g0}, dungeon \in {dungeon0}})

\* applyCurrentActivity(game): the new state and the returned boolean
applyCurrentActivity(g0, rnd) ==
    The({(
        IF g.currentActivity = NoActivity THEN [g |-> g, ret |-> FALSE]
        ELSE applyIn([g EXCEPT !.sinceUpdate = 0],
                     getDungeonById(g, g.currentActivity.dungeonId), rnd)
    ) : g \in {g0}})

----------------------------------------------------------------------------
(* Evil planner: takeEvilTurn *)

\* seq.sort((a, b) => Key(a) - Key(b)): Array.prototype.sort is stable
SortByKey(seq, Key(_)) ==
    LET Rank(i) == Cardinality({j \in 1..Len(seq) :
                       \/ Key(seq[j]) < Key(seq[i])
                       \/ (Key(seq[j]) = Key(seq[i]) /\ j <= i)})
    IN [k \in 1..Len(seq) |-> seq[CHOOSE i \in 1..Len(seq) : Rank(i) = k]]

NewActivity(dungeonId, actorId, tx, ty) ==
    [dungeonId |-> dungeonId, actorId |-> actorId, tx |-> tx, ty |-> ty]

\* monster.moves = 0; monster.actions = 0
Exhaust(g, monster) == SetActor(g, [monster EXCEPT !.moves = 0, !.actions = 0])

\* lines 629-640
evilBest(g0, monster0, bestMove0) ==
    The({(
        IF distanceToHero(g, monster.dungeonId, bestMove.x, bestMove.y)
               < distanceToHero(g, monster.dungeonId, monster.x, monster.y)
        THEN [g EXCEPT !.currentActivity =
                 NewActivity(monster.dungeonId, monster.id, bestMove.x, bestMove.y)]
        ELSE Exhaust(g, monster)
    ) : g \in {g0}, monster \in {monster0}, bestMove \in {bestMove0}})

evilMove(g0, monster) ==
    The({(
        evilBest(g, monster, g.possibleMoves[1])
    ) : g \in {g0}})

\* a planner that takes the moves in the order calcMoves lists them
evilSortNone(g0, monster) == g0

\* line 626: the sort is in place
evilSort(g0, monster) ==
    The({(
        LET Key(m) == distanceToHero(g, monster.dungeonId, m.x, m.y)
        IN [g EXCEPT !.possibleMoves = SortByKey(@, Key)]
    ) : g \in {g0}})

\* lines 613-624
evilAttack(g0, monster0, attackMove0) ==
    The({(
        SetActor(IF attackMove.type # "none"
                 THEN [g EXCEPT !.currentActivity =
                         NewActivity(monster.dungeonId, monster.id, attackMove.x, attackMove.y)]
                 ELSE g,
                 [monster EXCEPT !.actions = @ - 1])
    ) : g \in {g0}, monster \in {monster0}, attackMove \in {attackMove0}})

evilTarget(g0, monster0, hero0) ==
    The({(
        IF hero.id # -1
        THEN evilAttack(g, monster, FindMove(g.possibleMoves, hero.x, hero.y))
        ELSE evilMove(evilSort(g, monster), monster)
    ) : g \in {g0}, monster \in {monster0}, hero \in {hero0}})

evilAct(g0, monster0) ==
    The({(
        IF Len(g.possibleMoves) > 0
        THEN evilTarget(g, monster, getAdjacentHero(g, monster.dungeonId, monster))
        ELSE Exhaust(g, monster)
    ) : g \in {g0}, monster \in {monster0}})

evilPick(g0, allPossible0) ==
    The({(
        IF Len(allPossible) > 0
        THEN evilAct(calcMoves(g, allPossible[1]), allPossible[1])
        ELSE nextTurn(g)
    ) : g \in {g0}, allPossible \in {allPossible0}})

\* the eligible monsters sorted by a sort that is not stable: monsters at
\* the same distance come out in an order that depends on the engine
evilCandidatesUnstable(g0) ==
    The({(
        LET Eligible(a) == \/ a.moves > 0 /\ ~standingNextToHero(g, a)
                           \/ a.actions > 0 /\ standingNextToHero(g, a)
            Key(a) == distanceToHero(g, a.dungeonId, a.x, a.y)
            Turned(c) == IF g.engine = 2 THEN [k \in 1..Len(c) |-> c[Len(c) + 1 - k]] ELSE c
        IN The({SortByKey(Turned(c), Key) : c \in {SelectSeq(findActiveMonsters(g), Eligible)}})
    ) : g \in {g0}})

\* lines 598-605
evilCandidates(g0) ==
    The({(
        LET Eligible(a) == \/ a.moves > 0 /\ ~standingNextToHero(g, a)
                           \/ a.actions > 0 /\ standingNextToHero(g, a)
            Key(a) == distanceToHero(g, a.dungeonId, a.x, a.y)
        IN The({SortByKey(c, Key) : c \in {SelectSeq(findActiveMonsters(g), Eligible)}})
    ) : g \in {g0}})

evilBudget(g0) ==
    The({(
        IF g.evilTurnMax <= 0 THEN nextTurn(g) ELSE evilPick(g, evilCandidates(g))
    ) : g \in {g0}})

\* a planner that takes two off the budget on every invocation
takeEvilTurnTwoOff(g0) ==
    The({(
        IF Len(SelectSeq(AllActors(g), IsGood)) = 0 THEN g
        ELSE evilBudget([g EXCEPT !.evilTurnMax = @ - 2])
    ) : g \in {g0}})

\* takeEvilTurn(game)
takeEvilTurn(g0) ==
    The({(
        IF Len(SelectSeq(AllActors(g), IsGood)) = 0 THEN g
        ELSE evilBudget([g EXCEPT !.evilTurnMax = @ - 1])
    ) : g \in {g0}})

----------------------------------------------------------------------------
(* The handlers of Rune.initLogic *)

\* lines 691-693: the chosen save moves to the front
SaveFirst(saves0, i0) ==
    The({(
        <<saves[i]>> \o RemoveAt(saves, i)
    ) : saves \in {saves0}, i \in {i0}})

selectLoad(g, playerId0, save0, saves, rnd) ==
    The({(
        enterDungeonAt([g EXCEPT !.whoseSave = playerId,
                                 !.saveLevel = save.level + 1,
                                 !.persisted[playerId] = saves,
                                 !.gold = save.gold,
                                 !.deadHeroes = <<>>,
                                 !.possibleMoves = <<>>,
                                 !.events = <<>>,
                                 !.items = save.items,
                                 !.dungeons = <<>>],
                       save.level + 1, rnd)
    ) : playerId \in {playerId0}, save \in {save0}})

selectSave(g0, playerId0, saveIndex0, rnd) ==
    The({(
        IF saveIndex < Len(g.persisted[playerId])
        THEN selectLoad(g, playerId, g.persisted[playerId][saveIndex + 1],
                        SaveFirst(g.persisted[playerId], saveIndex + 1), rnd)
        ELSE g
    ) : g \in {g0}, playerId \in {playerId0}, saveIndex \in {saveIndex0}})

\* lines 736-739
NewSave(saves0) ==
    The({(
        SubSeq(<<NoSave>> \o saves, 1, Min(Len(saves) + 1, MAX_SAVES))
    ) : saves \in {saves0}})

setPlayerType(g0, playerId0, type, rnd) ==
    The({(
        IF playerId \in Range(g.playerOrder) THEN g
        ELSE joinGame(IF g.whoseSave = Undefined
                      THEN [g EXCEPT !.persisted[playerId] = NewSave(@)]
                      ELSE g,
                      playerId, type, rnd)
    ) : g \in {g0}, playerId \in {playerId0}})

moveChosen(g0, info0, move, x, y) ==
    The({(
        IF move.type = "none" THEN g
        ELSE IF info.actorId = -1 THEN Throw(g)
        ELSE [g EXCEPT !.currentActivity = NewActivity(info.dungeonId, info.actorId, x, y)]
    ) : g \in {g0}, info \in {info0}})

\* makeMove without the test of whose turn it is
makeMoveAnyTurn(g0, playerId0, x0, y0) ==
    The({(
        moveChosen(g, InfoOf(g, playerId), FindMove(g.possibleMoves, x, y), x, y)
    ) : g \in {g0}, playerId \in {playerId0}, x \in {x0}, y \in {y0}})

makeMove(g0, playerId0, x0, y0) ==
    The({(
        IF g.whoseTurn = playerId
        THEN moveChosen(g, InfoOf(g, playerId), FindMove(g.possibleMoves, x, y), x, y)
        ELSE g
    ) : g \in {g0}, playerId \in {playerId0}, x \in {x0}, y \in {y0}})

endTurn(g) == nextTurn(g)

clearType(g, playerId0) ==
    The({(
        [g EXCEPT !.playerOrder = Splice1(@, IndexOf(@, playerId) - 1),
                  !.playerInfo[playerId] = NoInfo]
    ) : playerId \in {playerId0}})

\* items.ts useItem(game, playerId, item): the item is used up
useItemFound(g, playerId, i) == [g EXCEPT !.items = RemoveAt(@, i)]

\* lines 769-775: an id that is not in the inventory finds no item
useItem(g0, playerId, id0) ==
    The({(
        IF IndexOfId(g.items, id) # 0
        THEN useItemFound(g, playerId, IndexOfId(g.items, id))
        ELSE g
    ) : g \in {g0}, id \in {id0}})

HasHero(d) == \E j \in 1..Len(d.actors) : d.actors[j].good

\* lines 785-791
pruneDungeons(g0) ==
    The({(
        IF Len(g.dungeons) > 2
        THEN [g EXCEPT !.dungeons = SelectSeq(@, HasHero)]
        ELSE g
    ) : g \in {g0}})

\* lines 797-808
turnLogic(g0) ==
    The({(
        IF g.whoseTurn = "evil" THEN takeEvilTurn(g)
        ELSE IF Len(g.possibleMoves) = 0 /\ Len(g.playerOrder) > 0 THEN nextTurn(g)
        ELSE g
    ) : g \in {g0}})

updateTurn(r0) ==
    The({(
        IF r.ret THEN r.g ELSE turnLogic(r.g)
    ) : r \in {r0}})

updateStep(g0, rnd) ==
    The({(
        IF g.sinceUpdate > STEP_PERIODS THEN updateTurn(applyCurrentActivity(g, rnd)) ELSE g
    ) : g \in {g0}})

\* update
update(g, rnd) == updateStep(pruneDungeons([g EXCEPT !.events = <<>>]), rnd)

leftInfo(g, playerId) == [g EXCEPT !.playerInfo[playerId] = NoInfo]

\* lines 837-842
leftActor(g0, playerId, info, dungeon0) ==
    The({(
        IF dungeon.id = -1 THEN g
        ELSE LET Other(a) == a.id # info.actorId
             IN SetDungeon([g EXCEPT !.playerOrder = Splice1(@, IndexOf(@, playerId) - 1)],
                           [dungeon EXCEPT !.actors = SelectSeq(@, Other)])
    ) : g \in {g0}, dungeon \in {dungeon0}})

leftTurn(g0, playerId0, info0) ==
    The({(
        IF g.err THEN g
        ELSE leftInfo(leftActor(g, playerId, info, getDungeonById(g, info.dungeonId)),
                      playerId)
    ) : g \in {g0}, playerId \in {playerId0}, info \in {info0}})

\* events.playerLeft
playerLeft(g0, playerId0) ==
    The({(
        IF InfoOf(g, playerId).actorId = -1 THEN g
        ELSE leftTurn(IF g.whoseTurn = playerId THEN nextTurn(g) ELSE g,
                      playerId, InfoOf(g, playerId))
    ) : g \in {g0}, playerId \in {playerId0}})

----------------------------------------------------------------------------
(* The state machine *)

\* the game state as the record the handlers work on
G ==
    [gold |-> gold, items |-> items, nextId |-> nextId, playerOrder |-> playerOrder,
     deadHeroes |-> deadHeroes, playerInfo |-> playerInfo, whoseTurn |-> whoseTurn,
     dungeons |-> dungeons, possibleMoves |-> possibleMoves,
     currentActivity |-> currentActivity, sinceUpdate |-> sinceUpdate,
     events |-> events, evilTurnMax |-> evilTurnMax, whoseSave |-> whoseSave,
     saveLevel |-> saveLevel, persisted |-> persisted, gameOvers |-> gameOvers,
     err |-> FALSE]

GameVars == <<gold, items, nextId, playerOrder, deadHeroes, playerInfo, whoseTurn,
              dungeons, possibleMoves, currentActivity, events, evilTurnMax,
              whoseSave, saveLevel, persisted, gameOvers>>

\* the state a handler leaves; a handler that throws leaves the state as it was
Commit(g) ==
    /\ g.nextId <= MaxId + 1
    /\ IF g.err
       THEN UNCHANGED GameVars
       ELSE /\ gold' = g.gold
            /\ items' = g.items
            /\ nextId' = g.nextId
            /\ playerOrder' = g.playerOrder
            /\ deadHeroes' = g.deadHeroes
            /\ playerInfo' = g.playerInfo
            /\ whoseTurn' = g.whoseTurn
            /\ dungeons' = g.dungeons
            /\ possibleMoves' = g.possibleMoves
            /\ currentActivity' = g.currentActivity
            /\ events' = g.events
            /\ evilTurnMax' = g.evilTurnMax
            /\ whoseSave' = g.whoseSave
            /\ saveLevel' = g.saveLevel
            /\ persisted' = g.persisted
            /\ gameOvers' = g.gameOvers

\* a command of a participant; the clock does not move
Command(g) ==
    /\ commands < MaxCommands
    /\ Len(g.events) <= MaxEvents
    /\ Commit(g)
    /\ commands' = commands + 1
    /\ UNCHANGED <<sinceUpdate, call>>

\* the tick: the state update leaves and the time since lastUpdate
Tick(g, now) ==
    /\ Commit(g)
    /\ sinceUpdate' = IF g.err THEN now ELSE g.sinceUpdate
    /\ UNCHANGED <<commands, call>>

\* Math.random() as the handlers draw it
Loots == {[item |-> TRUE, gold |-> 0]}
             \cup {[item |-> FALSE, gold |-> k] : k \in 0..(GoldMax - GoldMin - 1)}

Rnds ==
    {[skulls |-> sk, shields |-> sh, item |-> l.item, gold |-> l.gold, start |-> st] :
        sk \in [1..2 -> BOOLEAN], sh \in [1..1 -> BOOLEAN], l \in Loots, st \in 0..1}

NoRnd ==
    [skulls |-> [i \in 1..2 |-> FALSE], shields |-> [i \in 1..1 |-> FALSE],
     item |-> FALSE, gold |-> 0, start |-> 0]

StartRnds == {[NoRnd EXCEPT !.start = st] : st \in 0..1}

\* setup(allPlayerIds)
GameInit ==
    /\ gold = 0
    /\ evilTurnMax = 0
    /\ items = <<>>
    /\ nextId = 1 + DungeonIds
    /\ playerOrder = <<"evil">>
    /\ deadHeroes = <<>>
    /\ whoseTurn = AllPlayerIds[1]
    /\ playerInfo = [p \in Players |-> NoInfo]
    /\ dungeons = <<generateDungeon([nextId |-> 1], 1)>>
    /\ possibleMoves = <<>>
    /\ currentActivity = NoActivity
    /\ sinceUpdate = 0
    /\ events = <<>>
    /\ whoseSave = Undefined
    /\ saveLevel = 0
    /\ persisted = [p \in Players |-> <<>>]
    /\ gameOvers = 0
    /\ commands = 0

\* no function is called on its own
NoCall == [done |-> FALSE]

Init == GameInit /\ call = NoCall

SetPlayerType(p) ==
    \E type \in PlayerClasses, rnd \in StartRnds : Command(setPlayerType(G, p, type, rnd))

SelectSave(p) ==
    \E saveIndex \in 0..(MAX_SAVES - 1), rnd \in StartRnds :
        Command(selectSave(G, p, saveIndex, rnd))

MakeMove(p) == \E x \in Cells : Command(makeMove(G, p, x, 0))

EndTurn(p) == Command(endTurn(G))

ClearType(p) == Command(clearType(G, p))

UseItem(p) == \E id \in 1..MaxId : Command(useItem(G, p, id))

PlayerLeft(p) == Command(playerLeft(G, p))

\* the clock advances one update period and update runs
Clock == Min(sinceUpdate + 1, STEP_PERIODS + 1)

Update ==
    \E rnd \in (IF currentActivity = NoActivity THEN {NoRnd} ELSE Rnds) :
        \E g \in {update([G EXCEPT !.sinceUpdate = Clock], rnd)} : Tick(g, Clock)

Next ==
    \/ \E p \in Players : SetPlayerType(p)
    \/ \E p \in Players : SelectSave(p)
    \/ \E p \in Players : MakeMove(p)
    \/ \E p \in Players : EndTurn(p)
    \/ \E p \in Players : ClearType(p)
    \/ \E p \in Players : UseItem(p)
    \/ \E p \in Players : PlayerLeft(p)
    \/ Update

Spec == Init /\ [][Next]_vars

\* joining, moving and leaving only, with update called on every period of
\* the game clock
LeaveNext ==
    \/ \E p \in Players : SetPlayerType(p)
    \/ \E p \in Players : MakeMove(p)
    \/ \E p \in Players : PlayerLeft(p)
    \/ Update

FairSpec == Init /\ [][LeaveNext]_vars /\ WF_vars(Update)

\* rollCombat on its own: the attacker stands at (0, 0), the target at
\* (tx, ty); the stats, the target's cell and the multiplier are drawn at
\* the start, the dice when the call is made
CombatArgs ==
    {[done |-> FALSE,
      attacker |-> [id |-> 1, x |-> 0, y |-> 0, attack |-> a, modAttack |-> ma],
      target |-> [id |-> 2, x |-> tx, y |-> ty, defense |-> d, modDefense |-> md],
      multiplier |-> m] :
        a \in 0..MaxAttack, ma \in 0..MaxModAttack, d \in 0..MaxDefense,
        md \in 0..MaxModDefense, tx \in 0..MaxSpan, ty \in 0..1,
        m \in {1, MAGIC_MULTIPLIER}}

\* one Math.random() outcome for every die that can be rolled
CombatRnds ==
    {[skulls |-> sk, shields |-> sh] :
        sk \in [1..((MaxAttack + MaxModAttack) * MAGIC_MULTIPLIER) -> BOOLEAN],
        sh \in [1..(MaxDefense + MaxModDefense) -> BOOLEAN]}

CombatInit == GameInit /\ call \in CombatArgs

Roll ==
    /\ ~call.done
    /\ \E rnd \in CombatRnds :
           call' = [done |-> TRUE,
                      attacker |-> call.attacker,
                      target |-> call.target,
                      multiplier |-> call.multiplier,
                      rnd |-> rnd,
                      result |-> rollCombat(call.attacker, call.target,
                                            call.multiplier, rnd)]
    /\ UNCHANGED <<GameVars, sinceUpdate, commands>>

CombatSpec == CombatInit /\ [][Roll]_vars

\* update on two replicas.  A replica's game state is the record g; what a
\* replica has of its own and does not share (the device, the script engine
\* it runs on) is the field engine, which no function of logic.ts reads.
OnEngine(g0, e) ==
    The({(
        [f \in DOMAIN g \cup {"engine"} |-> IF f = "engine" THEN e ELSE g[f]]
    ) : g \in {g0}})

\* evil's turn in a game of one participant
ReplicaState(actors) ==
    [G EXCEPT !.dungeons = <<[id |-> 1, level |-> 1, actors |-> actors]>>,
              !.nextId = 5,
              !.playerOrder = <<"p1", "evil">>,
              !.whoseTurn = "evil",
              !.playerInfo["p1"] = [dungeonId |-> 1, type |-> "witch", actorId |-> 2],
              !.evilTurnMax = EVIL_TURN_MAX]

\* the states the replicas start from: a hero and two monsters on three
\* cells of the corridor, in each order of the actor list that matters, the
\* monsters with what they have left of their moves and actions
ReplicaArgs ==
    {LET hero == createActor("p1", 2, "witch", ClassDef("witch"), 1, at[1], 0)
         m1 == [createActor("", 3, "monster", MonsterDef, 1, at[2], 0)
                    EXCEPT !.moves = mv1, !.actions = ac1]
         m2 == [createActor("", 4, "monster", MonsterDef, 1, at[3], 0)
                    EXCEPT !.moves = mv2, !.actions = ac2]
     IN ReplicaState(<< <<hero, m1, m2>>, <<m1, hero, m2>>, <<m1, m2, hero>> >>[order]) :
        at \in {t \in Cells \X Cells \X Cells :
                   t[1] # t[2] /\ t[1] # t[3] /\ t[2] # t[3]},
        order \in 1..3,
        mv1 \in 0..MonsterDef.moves, mv2 \in 0..MonsterDef.moves,
        ac1 \in 0..1, ac2 \in 0..1}

ReplicaInit ==
    /\ GameInit
    /\ \E g \in ReplicaArgs :
           call = [ticks |-> 0, g |-> g,
                   first |-> OnEngine(g, 1), second |-> OnEngine(g, 2)]

\* update called on a replica at clock reading `now` (periods since
\* lastUpdate); an update that throws leaves the replica's state as it was
ReplicaTick(g0, now, rnd) ==
    The({(
        IF r.err THEN g0 ELSE r
    ) : r \in {update([g0 EXCEPT !.sinceUpdate = now], rnd)}})

\* both replicas run update with the same clock reading and the same
\* random draws
Replicate ==
    /\ call.ticks < MaxTicks
    /\ \E now \in {Min(call.first.sinceUpdate + 1, STEP_PERIODS + 1), STEP_PERIODS + 1},
          rnd \in (IF call.first.currentActivity = NoActivity THEN {NoRnd} ELSE Rnds) :
           call' = [ticks |-> call.ticks + 1,
                    g |-> call.g,
                    first |-> ReplicaTick(call.first, now, rnd),
                    second |-> ReplicaTick(call.second, now, rnd)]
    /\ UNCHANGED <<GameVars, sinceUpdate, commands>>

ReplicaSpec == ReplicaInit /\ [][Replicate]_vars

\* one step of the executor on its own: the acting actor is any of the
\* three actors of a start state, the step is of any type and names any
\* cell a step of that type can name (a free cell for move, open and
\* chest, another cell than the actor's for shoot, magic and attack; magic
\* and heal for an actor that has the magic they cost)
StepInit ==
    /\ GameInit
    /\ \E g \in {x \in ReplicaArgs : x.dungeons[1].actors[1].good},
          j \in 1..3, c \in Cells,
          type \in {"move", "open", "chest", "shoot", "magic", "heal", "attack"} :
           /\ type \in {"move", "open", "chest"} => getActorAt(g.dungeons[1], c, 0).id = -1
           /\ type \in {"shoot", "magic", "attack"} => c # g.dungeons[1].actors[j].x
           /\ type = "magic" => g.dungeons[1].actors[j].magic >= MAGIC_COST
           /\ type = "heal" => g.dungeons[1].actors[j].magic >= HEAL_COST
           /\ call = [done |-> FALSE, g |-> g, actor |-> g.dungeons[1].actors[j],
                      nextStep |-> [NoMove EXCEPT !.type = type, !.x = c, !.y = 0]]

\* the step is applied; `after` is the acting actor as the dungeon holds it
\* afterwards
OneStep ==
    /\ ~call.done
    /\ \E rnd \in (IF call.nextStep.type \in {"shoot", "magic", "attack"}
                   THEN {r \in Rnds : r.start = 0} ELSE {NoRnd}) :
           call' = [done |-> TRUE, g |-> call.g, actor |-> call.actor,
                    nextStep |-> call.nextStep,
                    after |-> ActorOr(DoStep(call.g, call.g.dungeons[1], call.actor,
                                             call.nextStep, rnd).g,
                                      call.actor.id, NoActor)]
    /\ UNCHANGED <<GameVars, sinceUpdate, commands>>

StepSpec == StepInit /\ [][OneStep]_vars

\* the planner on its own. It is called on evil's turn in a game of two
\* participants, each with a hero and a monster in a dungeon of their own
\* (the monster has free cells on both sides), and in the games of one
\* dungeon with a hero and two monsters (one monster can stand between the
\* hero and the other), on every placement and with what the monsters have
\* left of their moves and actions
PlanInit ==
    /\ GameInit
    /\ \E g \in ReplicaArgs \cup
                {[G EXCEPT
                     !.dungeons =
                         << [id |-> 1, level |-> 1, actors |->
                               << createActor("p1", 2, "witch", ClassDef("witch"), 1, at[1], 0),
                                  [createActor("", 3, "monster", MonsterDef, 1, at[2], 0)
                                      EXCEPT !.moves = mv1, !.actions = ac1] >>],
                            [id |-> 5, level |-> 2, actors |->
                               << [createActor("", 6, "monster", MonsterDef, 5, at[4], 0)
                                      EXCEPT !.moves = mv2, !.actions = ac2],
                                  createActor("p2", 4, "witch", ClassDef("witch"), 5, at[3], 0) >>] >>,
                     !.nextId = 7,
                     !.playerOrder = <<"p1", "p2", "evil">>,
                     !.whoseTurn = "evil",
                     !.playerInfo["p1"] = [dungeonId |-> 1, type |-> "witch", actorId |-> 2],
                     !.playerInfo["p2"] = [dungeonId |-> 5, type |-> "witch", actorId |-> 4],
                     !.evilTurnMax = EVIL_TURN_MAX] :
                 at \in {t \in Cells \X Cells \X Cells \X Cells : t[1] # t[2] /\ t[3] # t[4]},
                 mv1 \in 0..MonsterDef.moves, mv2 \in 0..MonsterDef.moves,
                 ac1 \in 0..1, ac2 \in 0..1} :
           call = [done |-> FALSE, g |-> g]

\* takeEvilTurn is called once
Plan ==
    /\ ~call.done
    /\ call' = [done |-> TRUE, g |-> call.g, after |-> takeEvilTurn(call.g)]
    /\ UNCHANGED <<GameVars, sinceUpdate, commands>>

PlanSpec == PlanInit /\ [][Plan]_vars

----------------------------------------------------------------------------
(* Properties *)

Ids(actors) == {actors[i].id : i \in 1..Len(actors)}

\* a turnChange event is in the event list: nextTurn has returned since the
\* list was last cleared
TurnChanged == \E i \in 1..Len(events) : events[i].type = "turnChange"

\* the participant's hero is in deadHeroes
DeadParticipant(p) == p \in Players /\ playerInfo[p].actorId \in Ids(deadHeroes)

\* C1: in every reachable state playerOrder has no duplicate entry, holds
\* exactly one "evil" entry, and "evil" is its last entry
C1_PlayerOrderShape ==
    /\ \A i, j \in 1..Len(playerOrder) : playerOrder[i] = playerOrder[j] => i = j
    /\ Cardinality({i \in 1..Len(playerOrder) : playerOrder[i] = "evil"}) = 1
    /\ Len(playerOrder) > 0 /\ playerOrder[Len(playerOrder)] = "evil"

\* C2: in every reachable state, from the state setup returns on, whoseTurn
\* is an element of playerOrder
C2_WhoseTurnInOrder == whoseTurn \in Range(playerOrder)

\* C3: an activity that is set stays the same activity until it is cleared,
\* and only a tick (the executor) clears it: no command replaces or cancels it
C3_ActivityKept ==
    [][currentActivity # NoActivity =>
          /\ currentActivity' \in {currentActivity, NoActivity}
          /\ currentActivity' = NoActivity => commands' = commands]_vars

\* C4: while an activity is set, no step changes whoseTurn
C4_TurnHeldDuringActivity ==
    [][currentActivity # NoActivity => whoseTurn' = whoseTurn]_vars

\* the activity in flight names an actor that is no longer in its dungeon
ActorGone ==
    /\ currentActivity # NoActivity
    /\ getDungeonById(G, currentActivity.dungeonId).id # -1
    /\ getActorById(G, currentActivity.dungeonId, currentActivity.actorId).id = -1

\* C5: under fair ticking, whenever it is evil's turn, a hero is active and
\* the activity in flight belongs to an actor that has been removed, that
\* evil turn eventually ends: nextTurn is invoked (a turnChange event, or the
\* turn passes on), unless no hero is active any more
C5_EvilTurnEnds ==
    (whoseTurn = "evil" /\ findActiveHero(G) /\ ActorGone)
        ~> (whoseTurn # "evil" \/ TurnChanged \/ ~findActiveHero(G))

\* C6: while heroes are still in play (no game over), after nextTurn has
\* returned whoseTurn is not a participant whose hero has been killed and
\* moved to deadHeroes
C6_DeadNeverGetTurn ==
    (TurnChanged /\ gameOvers = 0) => ~DeadParticipant(whoseTurn)

\* C7: every actor in a dungeon's list has 0 < health <= maxHealth, no dead
\* hero is in a list, and a hero that a tick takes out of the lists is in
\* deadHeroes after that tick
C7_HealthInList ==
    \A i \in 1..Len(dungeons) : \A j \in 1..Len(dungeons[i].actors) :
        /\ 0 < dungeons[i].actors[j].health
        /\ dungeons[i].actors[j].health <= dungeons[i].actors[j].maxHealth
        /\ dungeons[i].actors[j].id \notin Ids(deadHeroes)

C7_DeadHeroKept ==
    commands' = commands =>
        \A i \in 1..Len(dungeons) : \A j \in 1..Len(dungeons[i].actors) :
            (dungeons[i].actors[j].good
                 /\ \A k \in 1..Len(dungeons') :
                        dungeons[i].actors[j].id \notin Ids(dungeons'[k].actors))
            => dungeons[i].actors[j].id \in Ids(deadHeroes')

C7_LiveActorsOnly == []C7_HealthInList /\ [][C7_DeadHeroKept]_vars

\* C7 witness: the tick just taken has killed a hero, which is now in
\* deadHeroes
C7_Witness_Killed ==
    /\ Len(deadHeroes) > 0
    /\ \E i \in 1..Len(events) : events[i].type = "died"

\* C8: every actor of every dungeon has 0 <= magic <= maxMagic and
\* 0 <= moves <= maxMoves
C8_ResourcesInRange ==
    \A i \in 1..Len(dungeons) : \A j \in 1..Len(dungeons[i].actors) :
        /\ 0 <= dungeons[i].actors[j].magic
        /\ dungeons[i].actors[j].magic <= dungeons[i].actors[j].maxMagic
        /\ 0 <= dungeons[i].actors[j].moves
        /\ dungeons[i].actors[j].moves <= dungeons[i].actors[j].maxMoves

C10_GameOverIsFinal ==
    /\ gameOvers <= 1
    /\ gameOvers > 0 => ~TurnChanged

\* the tick being taken completes, with a move step, the activity that
\* brings the hero dungeons[i].actors[j] onto the stairs-down centre cell
StairsStep(i, j) ==
    /\ commands' = commands
    /\ dungeons[i].actors[j].good
    /\ currentActivity = NewActivity(dungeons[i].id, dungeons[i].actors[j].id, StairsCell, 0)
    /\ currentActivity' = NoActivity
    /\ \E k \in 1..Len(events') :
           events'[k].type = "step" /\ events'[k].actorId = dungeons[i].actors[j].id

\* no dungeon deeper than dungeons[i] exists yet
NoNextDungeon(i) == \A k \in 1..Len(dungeons) : dungeons[k].level <= dungeons[i].level

\* the dungeons of the next state that the current state does not have
NewDungeons == {k \in 1..Len(dungeons') : dungeons'[k].id \notin Ids(dungeons)}

\* what C11 asks of such a tick: one new dungeon, of the next level, holding
\* the hero, whose old dungeon and playerInfo are updated
StairsStepOk(i, j) ==
    /\ Cardinality(NewDungeons) = 1
    /\ \A k \in NewDungeons :
           /\ dungeons'[k].level = dungeons[i].level + 1
           /\ dungeons[i].actors[j].id \in Ids(dungeons'[k].actors)
           /\ playerInfo'[dungeons[i].actors[j].playerId].dungeonId = dungeons'[k].id
    /\ \A k \in 1..Len(dungeons') :
           dungeons'[k].id = dungeons[i].id =>
               dungeons[i].actors[j].id \notin Ids(dungeons'[k].actors)

\* C11: when a hero completes an activity on the stairs-down centre cell of
\* a dungeon of level L and no next dungeon exists yet, exactly one new
\* dungeon is created, its level is L + 1, the hero has left the old
\* dungeon's list and is in the new dungeon's list, and the owning
\* participant's playerInfo.dungeonId is the new dungeon's id
C11_StairsMakeNextLevel ==
    [][\A i \in 1..Len(dungeons) : \A j \in 1..Len(dungeons[i].actors) :
           (StairsStep(i, j) /\ NoNextDungeon(i)) => StairsStepOk(i, j)]_vars

\* the tick being taken invokes the planner: it is a logic step (more than
\* STEP_TIME since lastUpdate) on evil's turn with no activity in flight
PlannerRuns ==
    /\ commands' = commands
    /\ whoseTurn = "evil"
    /\ currentActivity = NoActivity
    /\ Clock > STEP_PERIODS

\* takeEvilTurn's own test for heroes (lines 585-589)
AnyHero == Len(SelectSeq(AllActors(G), IsGood)) > 0

\* nextTurn was called in the tick being taken
TurnAdvances == \E k \in 1..Len(events') : events'[k].type = "turnChange"

\* an evil turn begins with the full budget
EvilTurnStartsFull ==
    (whoseTurn # "evil" /\ whoseTurn' = "evil") => evilTurnMax' = EVIL_TURN_MAX

\* a planner invocation takes exactly one off the budget, or ends the turn
\* and a new evil turn begins with the full budget, or nextTurn throws and
\* the update leaves the game state as it was
BudgetStep ==
    \/ evilTurnMax' = evilTurnMax - 1
    \/ TurnAdvances /\ whoseTurn' = "evil" /\ evilTurnMax' = EVIL_TURN_MAX
    \/ UNCHANGED GameVars

\* the planner invoked with one left in the budget
LastInvocation == takeEvilTurn([G EXCEPT !.evilTurnMax = 1, !.events = <<>>])

\* with one left the invocation calls nextTurn (which emits turnChange or
\* throws) and starts no activity, whatever monsters are eligible
BudgetEndForcesTurn ==
    (whoseTurn = "evil" /\ currentActivity = NoActivity /\ AnyHero)
        => /\ \/ LastInvocation.err
              \/ \E k \in 1..Len(LastInvocation.events) :
                     LastInvocation.events[k].type = "turnChange"
           /\ LastInvocation.currentActivity = NoActivity

Following ==
    playerOrder[(IndexOf(playerOrder, whoseTurn) % Len(playerOrder)) + 1]

\* nextTurn called in the current state
Rotated == nextTurn(G)

\* C13: a call to nextTurn made while the turn holder is an entry of
\* playerOrder completes, sets whoseTurn to the entry that directly follows
\* the holder, wrapping from the last entry to the first, and leaves
\* playerOrder as it was
C13_NextTurnRotates ==
    (\E k \in 1..Len(playerOrder) : playerOrder[k] = whoseTurn)
        => /\ ~Rotated.err
           /\ Rotated.whoseTurn = Following
           /\ Rotated.playerOrder = playerOrder


\* setPlayerType from a participant that is already in playerOrder
StaleJoin ==
    \A p \in Players, type \in PlayerClasses, rnd \in StartRnds :
        p \in Range(playerOrder) => setPlayerType(G, p, type, rnd) = G

\* makeMove from a participant whose turn it is not, or to a cell that is
\* not in possibleMoves
StaleMove ==
    \A p \in Players, x \in Cells :
        (whoseTurn # p \/ FindMove(possibleMoves, x, 0).type = "none")
            => makeMove(G, p, x, 0) = G

\* useItem with an id that is not in the inventory
StaleUse ==
    \A p \in Players, id \in 1..MaxId :
        id \notin Ids(items) => useItem(G, p, id) = G

\* C14: a stale or duplicate command (setPlayerType from a participant in
\* playerOrder, makeMove out of turn or to a cell not in possibleMoves,
\* useItem with an id not in the inventory) leaves the whole game state,
\* the event list included, as it was
C14_StaleCommandIgnored == StaleJoin /\ StaleMove /\ StaleUse

\* C14 witness: a state where each kind of stale command can be sent and
\* would show: a joined participant waits for its turn while the holder has
\* moves to choose from, the inventory holds an item and the event list is
\* not empty
C14_Witness_Stale ==
    /\ \E p \in Players :
           p \in Range(playerOrder) /\ whoseTurn # p /\ playerInfo[p].actorId # -1
    /\ whoseTurn \in Players /\ Len(possibleMoves) > 0
    /\ Len(items) > 0
    /\ Len(events) > 0

\* endTurn sent in the current state (the handler does not read the sender)
TurnEnded == endTurn(G)

\* C15: an endTurn sent by a joined participant who is not the turn holder,
\* evil's turn included, does not change whoseTurn and adds no turnChange
\* event
C15_EndTurnOnlyByHolder ==
    \A p \in Players :
        (p \in Range(playerOrder) /\ whoseTurn \in Range(playerOrder) /\ p # whoseTurn)
            => \/ TurnEnded.err
               \/ /\ TurnEnded.whoseTurn = whoseTurn
                  /\ TurnEnded.events = events

\* the participant has joined: it has a playerInfo record
Joined(p) == playerInfo[p].actorId # -1

\* what playerLeft(p) leaves: the turn is not the leaver's if it was, and
\* the leaver has no entry in playerOrder, no playerInfo record and no actor
\* in any dungeon
Gone(g, p) ==
    /\ ~g.err
    /\ whoseTurn = p => g.whoseTurn # p
    /\ p \notin Range(g.playerOrder)
    /\ g.playerInfo[p] = NoInfo
    /\ \A i \in 1..Len(g.dungeons) :
           playerInfo[p].actorId \notin Ids(g.dungeons[i].actors)

\* C16: after playerLeft for a participant who has joined, the turn has
\* moved off the leaver if it was theirs, and the leaver is in no
\* playerOrder entry, has no playerInfo record and no actor in any dungeon
C16_LeaverFullyRemoved ==
    \A p \in Players : Joined(p) => Gone(playerLeft(G, p), p)

\* ceil(n / 2)
HalfUp(n) == CHOOSE k \in 0..n : 2 * k >= n /\ 2 * (k - 1) < n

\* the number of attack dice: half the attack score, rounded up, next to the
\* target whatever the multiplier; the score times the multiplier elsewhere
ScoreDice(attacker, target, multiplier) ==
    IF Abs(attacker.x - target.x) + Abs(attacker.y - target.y) = 1
    THEN HalfUp(attacker.attack + attacker.modAttack)
    ELSE (attacker.attack + attacker.modAttack) * multiplier

EventCount(evs, type) == Cardinality({k \in 1..Len(evs) : evs[k].type = type})

\* the tick being taken has killed an actor
KillStep == commands' = commands /\ EventCount(events', "died") > 0

NoLoot ==
    /\ EventCount(events', "itemLoot") = 0 /\ EventCount(events', "goldLoot") = 0
    /\ gold' = gold /\ items' = items

ItemLoot ==
    /\ EventCount(events', "itemLoot") = 1 /\ EventCount(events', "goldLoot") = 0
    /\ gold' = gold /\ Len(items') = Len(items) + 1

GoldLoot ==
    /\ EventCount(events', "itemLoot") = 0 /\ EventCount(events', "goldLoot") = 1
    /\ gold' - gold >= GoldMin /\ gold' - gold < GoldMax
    /\ \E k \in 1..Len(events') :
           events'[k].type = "goldLoot" /\ events'[k].value = gold' - gold
    /\ items' = items

\* C18: a kill awards at most one of item and gold: the kill of a monster
\* gives either one item with one itemLoot event and no gold, or gold g
\* with min <= g < max of the monster's goldOnKill with one goldLoot event
\* and no item; the kill of a hero gives neither
C18_OneLootPerKill ==
    [][KillStep =>
          IF Len(deadHeroes') > Len(deadHeroes) THEN NoLoot
          ELSE ItemLoot \/ GoldLoot]_vars

\* C18 witness: a monster has just been killed and has left gold
C18_Witness_GoldLoot ==
    /\ EventCount(events, "died") = 1
    /\ EventCount(events, "goldLoot") = 1
    /\ EventCount(events, "itemLoot") = 0
    /\ gold >= GoldMin

\* the next call of update performs a logical step: more than STEP_TIME has
\* passed since lastUpdate and there is an activity to advance, or a planner
\* to run with a hero in play, or a hero's turn to pass on for want of moves
StepDue ==
    /\ Clock > STEP_PERIODS
    /\ \/ currentActivity # NoActivity
       \/ whoseTurn = "evil" /\ AnyHero
       \/ whoseTurn # "evil" /\ Len(possibleMoves) = 0 /\ Len(playerOrder) > 0

\* the tick being taken performs a logical step (and does not throw)
LogicStep == StepDue /\ commands' = commands /\ GameVars' # GameVars

\* C19: two consecutive logical steps of update are more than STEP_TIME
\* apart: once a tick has performed a logical step, the tick that follows
\* it, one update period (1000/15 < STEP_TIME) later, performs none
C19_StepsThrottled == [][LogicStep => ~StepDue']_vars

\* the states of two replicas agree on everything the replicas share
SameState(a, b) == OnEngine(a, 0) = OnEngine(b, 0)

PlannerTie(g) ==
    /\ Len(evilCandidates(g)) = 2
    /\ distanceToHero(g, 1, evilCandidates(g)[1].x, 0)
           = distanceToHero(g, 1, evilCandidates(g)[2].x, 0)

Resources(a) == <<a.moves, a.actions, a.magic>>

\* the hero of the participant, alive in some dungeon (NoActor when not)
LiveHero(g, p) ==
    IF p \in Players /\ ActorOr(g, g.playerInfo[p].actorId, NoActor).id # -1
          /\ ActorOr(g, g.playerInfo[p].actorId, NoActor).good
          /\ ActorOr(g, g.playerInfo[p].actorId, NoActor).health > 0
    THEN ActorOr(g, g.playerInfo[p].actorId, NoActor)
    ELSE NoActor

\* nextTurn has handed the turn to a live hero: that hero is reset and has
\* one more magic up to its maximum, every other actor is as it was
HeroTurnReset(g) ==
    \A i \in 1..Len(dungeons) : \A j \in 1..Len(dungeons[i].actors) :
        IF dungeons[i].actors[j].id = LiveHero(g, g.whoseTurn).id
        THEN Resources(g.dungeons[i].actors[j])
                 = <<dungeons[i].actors[j].maxMoves, 1,
                     Min(dungeons[i].actors[j].maxMagic, dungeons[i].actors[j].magic + 1)>>
        ELSE Resources(g.dungeons[i].actors[j]) = Resources(dungeons[i].actors[j])

\* nextTurn has handed the turn to evil: the budget is full, every monster
\* is reset, every hero is as it was
EvilTurnReset(g) ==
    /\ g.evilTurnMax = EVIL_TURN_MAX
    /\ \A i \in 1..Len(dungeons) : \A j \in 1..Len(dungeons[i].actors) :
           IF dungeons[i].actors[j].good
           THEN Resources(g.dungeons[i].actors[j]) = Resources(dungeons[i].actors[j])
           ELSE /\ g.dungeons[i].actors[j].moves = dungeons[i].actors[j].maxMoves
                /\ g.dungeons[i].actors[j].actions = 1
                /\ g.dungeons[i].actors[j].magic = dungeons[i].actors[j].magic

\* C21: a nextTurn that hands the turn to a live hero leaves that hero with
\* moves = maxMoves, actions = 1 and magic = min(maxMagic, magic + 1) and
\* every other actor's resources as they were; one that hands the turn to
\* evil leaves evilTurnMax = 100, every monster with moves = maxMoves and
\* actions = 1, and every hero's resources as they were
C21_TurnStartResets ==
    ~Rotated.err =>
        /\ LiveHero(Rotated, Rotated.whoseTurn).id # -1 => HeroTurnReset(Rotated)
        /\ Rotated.whoseTurn = "evil" => EvilTurnReset(Rotated)


\* C21 witness: the turn has just come to a live hero who had spent magic:
\* the hero has its moves and one action back and magic short of its maximum
C21_Witness_HeroReset ==
    /\ TurnChanged
    /\ LiveHero(G, whoseTurn).id # -1
    /\ LiveHero(G, whoseTurn).moves = LiveHero(G, whoseTurn).maxMoves
    /\ LiveHero(G, whoseTurn).actions = 1
    /\ LiveHero(G, whoseTurn).magic > 0
    /\ LiveHero(G, whoseTurn).magic < LiveHero(G, whoseTurn).maxMagic

PlanMoveCase(g0) ==
    The({(
        /\ g.whoseTurn = "evil"
        /\ g.currentActivity = NoActivity
        /\ Len(SelectSeq(AllActors(g), IsGood)) > 0
        /\ g.evilTurnMax > 1
        /\ Len(evilCandidates(g)) > 0
        /\ getAdjacentHero(g, evilCandidates(g)[1].dungeonId, evilCandidates(g)[1]).id = -1
        /\ Len(calcMoves(g, evilCandidates(g)[1]).possibleMoves) > 0
    ) : g \in {g0}})

\* the least distance to a hero over the legal moves of the monster
BestDistance(g0, m0) ==
    The({(
        MinOr({distanceToHero(g, m.dungeonId, mv.x, mv.y) :
                   mv \in Range(calcMoves(g, m).possibleMoves)}, FarAway)
    ) : g \in {g0}, m \in {m0}})

\* what the invocation r of the planner on g did with the monster m it
\* selected: an activity towards a nearest legal move when that move is
\* nearer to a hero than the monster is, else no activity and the monster
\* exhausted
MoveChosen(g0, m0, r0) ==
    The({(
        IF BestDistance(g, m) < distanceToHero(g, m.dungeonId, m.x, m.y)
        THEN /\ r.currentActivity.dungeonId = m.dungeonId
             /\ r.currentActivity.actorId = m.id
             /\ \E mv \in Range(calcMoves(g, m).possibleMoves) :
                    /\ mv.type = "move"
                    /\ mv.x = r.currentActivity.tx /\ mv.y = r.currentActivity.ty
                    /\ distanceToHero(g, m.dungeonId, mv.x, mv.y) = BestDistance(g, m)
        ELSE /\ r.currentActivity = NoActivity
             /\ ActorOr(r, m.id, NoActor).moves = 0
             /\ ActorOr(r, m.id, NoActor).actions = 0
    ) : g \in {g0}, m \in {m0}, r \in {r0}})

\* the invocation changed no actor but m, and removed and added none
OthersKept(g0, m0, r0) ==
    The({(
        /\ {a.id : a \in Range(AllActors(r))} = {a.id : a \in Range(AllActors(g))}
        /\ \A a \in Range(AllActors(g)) : a.id # m.id => ActorOr(r, a.id, NoActor) = a
    ) : g \in {g0}, m \in {m0}, r \in {r0}})

\* C23: when the planner selects a monster with no hero next to it and a
\* legal move, it starts an activity of that monster towards a legal move
\* of least distance to the nearest hero if that distance is strictly less
\* than the monster's own, and otherwise starts no activity and sets the
\* monster's moves and actions to 0; either way no other actor changes
C23_PlannerMoveChoice ==
    (call.done /\ PlanMoveCase(call.g)) =>
        /\ MoveChosen(call.g, evilCandidates(call.g)[1], call.after)
        /\ OthersKept(call.g, evilCandidates(call.g)[1], call.after)

\* C23 witness: the monster the planner selected could step towards the
\* hero or away from it; the activity started is the step towards it, and
\* the monster of the other dungeon still has its moves
C23_Witness_NearerOfTwo ==
    /\ call.done /\ PlanMoveCase(call.g)
    /\ Len(calcMoves(call.g, evilCandidates(call.g)[1]).possibleMoves) > 1
    /\ call.after.currentActivity # NoActivity
    /\ Len(evilCandidates(call.g)) = 2
    /\ evilCandidates(call.after) = evilCandidates(call.g)

\* the selected monster could only step away from the hero and was left
\* exhausted, no activity started
PlannerGaveUp ==
    /\ call.done /\ PlanMoveCase(call.g)
    /\ call.after.currentActivity = NoActivity
    /\ ActorOr(call.g, evilCandidates(call.g)[1].id, NoActor).moves > 0
    /\ ActorOr(call.after, evilCandidates(call.g)[1].id, NoActor).moves = 0

\* C24: whenever currentActivity is set, the dungeon it names is in
\* game.dungeons and the actor it names is in that dungeon's actor list
C24_ActivityActorExists ==
    currentActivity # NoActivity =>
        /\ getDungeonById(G, currentActivity.dungeonId).id # -1
        /\ getActorById(G, currentActivity.dungeonId, currentActivity.actorId).id # -1

\* C25: every entry of playerOrder other than "evil" has a playerInfo
\* record
C25_OrderHasInfo ==
    \A i \in 1..Len(playerOrder) :
        playerOrder[i] # "evil" => InfoOf(G, playerOrder[i]).dungeonId # -1

\* C26: every actor of every dungeon has actions >= 0
C26_ActionsNotNegative ==
    \A a \in Range(AllActors(G)) : a.actions >= 0

====
